---- MODULE Spec2Model ----
(***************************************************************************)
(* A model of the gqlgen IR construction pipeline with the federation      *)
(* plugin: codegen.BuildData (codegen/data.go) and the plugin hooks        *)
(* MutateConfig, InjectSources, MutateSchema and GenerateCode together     *)
(* with the entity dispatch the plugin's template generates                *)
(* (plugin/federation/federation.go).                                      *)
(*                                                                         *)
(* Strings that the code inspects are modelled by their parts: the raw     *)
(* argument of a @key directive is the sequence of its space-separated     *)
(* field names, a printed schema is the sequence of its lines and a        *)
(* printed field is the tuple of its name, arguments and type.             *)
(* Go's iteration over a map is a choice of any order of its keys.         *)
(* The prelude types (__Schema, String, ...) and the scalars of            *)
(* federation.graphql are left out of the type map: the code under study   *)
(* treats them like any other object or skips them as scalars.             *)
(***************************************************************************)
EXTENDS Integers, Sequences, FiniteSets, TLC

VARIABLES
    cfg,        \* *config.Config: flags, models, binder failures, sources
    plugins,    \* whether the federation plugin is registered with the driver
    schema,     \* the *ast.Schema shared by the hooks and the builder
    f,          \* the federation plugin value: SDL and Entities
    data,       \* the *codegen.Data returned by BuildData (NilData if none)
    err,        \* the error value the pipeline returned ("" if none)
    pc,         \* the stage the pipeline driver is about to run
    stageErrs,  \* the stages of BuildData that returned an error in this run
    qsync,      \* Query root field names (Object, schema) after each injection
    run,        \* number of the current run of the pipeline
    prev,       \* the Data value the previous run returned
    ran,        \* the stages that have run in this run of the pipeline
    fault,      \* the read or load of a schema source that failed in the plugin
    reps,       \* the representations handed to the generated dispatch
    out         \* what the generated dispatch returned

vars == <<cfg, plugins, schema, f, data, err, pc, stageErrs, qsync, run, prev, ran, fault,
          reps, out>>

\* ------------------------------------------------------------------ bounds
MaxRuns == 2
MaxReps == 2

\* ------------------------------------------------------------- nil values
Nil == "<nil>"
NilData == [nil |-> TRUE]
NilSchema == [nil |-> TRUE]
NoResult == [nil |-> TRUE]

\* ------------------------------------------------------- sequence helpers
Range(s) == {s[i] : i \in DOMAIN s}

RECURSIVE Orders(_)
\* every order in which a Go range statement may visit the keys of a map
Orders(S) ==
    IF S = {} THEN {<<>>}
    ELSE UNION {{<<x>> \o o : o \in Orders(S \ {x})} : x \in S}

Names(s) == [i \in DOMAIN s |-> s[i].Name]

\* ------------------------------------------------------------ name order
\* Go compares strings byte by byte: upper case letters sort before '_'.
NameOrder == <<"Args", "Entity", "Filter", "Product", "Query", "User", "_Entity", "_Service">>

Rank(n) == CHOOSE i \in DOMAIN NameOrder : NameOrder[i] = n

NameLess(a, b) == Rank(a) < Rank(b)

\* --------------------------------------------------------- the schema AST
\* ast.Type: the named type and the list and non-null wrappers around it
NamedType(name) == [NamedType |-> name, Shape |-> "T"]
NonNullNamedType(name) == [NamedType |-> name, Shape |-> "T!"]
NonNullListType(elem) ==
    [NamedType |-> elem.NamedType, Shape |-> IF elem.Shape = "T" THEN "[T]!" ELSE "[T!]!"]

\* ast.ArgumentDefinition
Arg(name, type) == [Name |-> name, Type |-> type]

\* ast.FieldDefinition
FieldDef(name, type, args) == [Name |-> name, Type |-> type, Arguments |-> args]

\* ast.Definition
Definition(kind, name, fields, dirs, types) ==
    [Kind |-> kind, Name |-> name, Fields |-> fields, Directives |-> dirs, Types |-> types]

\* a @key directive application; Raw is dir.Arguments[0].Value.Raw, the
\* sequence of the words of the text
KeyDirective(raw) == [Name |-> "key", Raw |-> raw]

\* a name as a text: one word
Text(name) == <<name>>

\* ast.DirectiveList.ForName: the first directive of that name, or nil
ForName(dirs, name) ==
    IF \E i \in DOMAIN dirs : dirs[i].Name = name
    THEN dirs[CHOOSE i \in DOMAIN dirs :
                 /\ dirs[i].Name = name
                 /\ \A j \in 1..(i - 1) : dirs[j].Name # name]
    ELSE NilData

\* ast.FieldList.ForName: the first field whose name is that text, or nil
FieldForName(fields, text) ==
    IF \E i \in DOMAIN fields : Text(fields[i].Name) = text
    THEN fields[CHOOSE i \in DOMAIN fields :
                   /\ Text(fields[i].Name) = text
                   /\ \A j \in 1..(i - 1) : Text(fields[j].Name) # text]
    ELSE NilData

\* strings.Contains(fieldName, " ")
ContainsSpace(raw) == Len(raw) > 1

\* ----------------------------------------------- the schemas under study
ProductFields ==
    <<FieldDef("sku", NamedType("Int"), <<>>), FieldDef("upc", NonNullNamedType("String"), <<>>)>>
UserFields == <<FieldDef("id", NonNullNamedType("ID"), <<>>)>>
QueryFields == <<FieldDef("version", NamedType("String"), <<>>)>>
InputFields == <<FieldDef("limit", NamedType("Int"), <<>>)>>

ProductKeys == {<<>>, <<KeyDirective(<<"upc">>)>>, <<KeyDirective(<<"upc", "sku">>)>>}

QueryKinds == {"OBJECT", "INTERFACE", Nil}

\* the type definitions of the user's schema files
UserTypes(withProduct, productDirs, withUser, withInputs, queryKind) ==
    LET product == IF withProduct
                   THEN {Definition("OBJECT", "Product", ProductFields, productDirs, <<>>)}
                   ELSE {}
        user == IF withUser
                THEN {Definition("OBJECT", "User", UserFields, <<KeyDirective(<<"id">>)>>, <<>>)}
                ELSE {}
        inputs == IF withInputs
                  THEN {Definition("INPUT_OBJECT", "Filter", InputFields, <<>>, <<>>),
                        Definition("INPUT_OBJECT", "Args", InputFields, <<>>, <<>>)}
                  ELSE {}
        query == IF queryKind = Nil THEN {}
                 ELSE {Definition(queryKind, "Query", QueryFields, <<>>, <<>>)}
    IN  product \cup user \cup inputs \cup query

SchemaOf(defs, queryKind) == [Defs |-> defs, Query |-> IF queryKind = Nil THEN Nil ELSE "Query"]

\* a schema declares Product, with or without the User entity, or the two
\* input types
UserSchemas ==
    {SchemaOf(UserTypes(TRUE, pd, u, FALSE, q), q) :
        pd \in ProductKeys, u \in BOOLEAN, q \in QueryKinds}
    \cup {SchemaOf(UserTypes(FALSE, <<>>, FALSE, TRUE, q), q) : q \in QueryKinds}

\* ------------------------------------------------------------ the config
\* the binder's answers for the type names it can resolve
GoTypes == [String |-> "string", Int |-> "int", ID |-> "string"]

\* TypeReference.GO.String() of a named schema type
GoType(base) == IF base \in DOMAIN GoTypes THEN GoTypes[base] ELSE base

\* type names the Type Binder may be unable to resolve
UnboundSets == {{}, {"_Service"}, {"_Any"}, {"Int"}}

\* models the user's config may already declare
UserModels == {{}, {"_Any"}}

\* the configs as read from the config file and the schema files
Configs ==
    {[Federated |-> fed, UserModels |-> m, Models |-> m, Unbound |-> u, Sources |-> src,
      AdditionalSources |-> <<>>] :
        fed \in BOOLEAN, m \in UserModels, u \in UnboundSets, src \in UserSchemas}

\* the federation.graphql source of the plugin
FederationSource == [Name |-> "federation.graphql", Defs |-> {}]

\* the Entity type the plugin declares in entity.graphql: one resolver
\* field per entity, in the order of the entity list
EntitySource(entities) ==
    [Name |-> "entity.graphql",
     Defs |-> {Definition("OBJECT", "Entity",
                  [i \in DOMAIN entities |->
                      FieldDef(entities[i].ResolverName, NonNullNamedType(entities[i].Name),
                               <<Arg(entities[i].FieldName[1], entities[i].FieldTypeGQL)>>)],
                  <<>>, <<>>)}]

\* config.LoadSchema when it succeeds: the schema parsed from the user's
\* sources and the additional sources; every object is its own possible type
LoadSchema(c) ==
    LET defs == c.Sources.Defs \cup
                UNION {c.AdditionalSources[i].Defs : i \in DOMAIN c.AdditionalSources}
        names == {d.Name : d \in defs}
    IN  [Types |-> [n \in names |-> CHOOSE d \in defs : d.Name = n],
         Query |-> c.Sources.Query,
         PossibleTypes |-> [n \in {d.Name : d \in {x \in defs : x.Kind = "OBJECT"}} |-> <<n>>]]

\* ------------------------------------------------- the federation plugin
\* strings.Title of a field name and fmt.Sprintf("find%sBy%s", ...), on the
\* names of the schemas under study
ResolverNames ==
    [Product |-> [upc |-> "findProductByUpc", sku |-> "findProductBySku"],
     User |-> [id |-> "findUserById"]]

ResolverName(typeName, fieldName) ==
    IF Len(fieldName) = 1 /\ typeName \in DOMAIN ResolverNames
       /\ fieldName[1] \in DOMAIN ResolverNames[typeName]
    THEN ResolverNames[typeName][fieldName[1]]
    ELSE "find"

\* federation.Entity
Entity(name, fieldName, fieldTypeGo, fieldTypeGQL, resolverName) ==
    [Name |-> name, FieldName |-> fieldName, FieldTypeGo |-> fieldTypeGo,
     FieldTypeGQL |-> fieldTypeGQL, ResolverName |-> resolverName]

RECURSIVE setEntitiesLoop(_, _, _)
\* the range loop of setEntities over schema.Types, visited in that order;
\* panic is set when the loop panics
setEntitiesLoop(types, order, entities) ==
    IF order = <<>> THEN [panic |-> FALSE, Entities |-> entities]
    ELSE LET schemaType == types[Head(order)]
             dir == ForName(schemaType.Directives, "key")
         IN  IF schemaType.Kind = "OBJECT" /\ dir # NilData
             THEN LET fieldName == dir.Raw
                      field == FieldForName(schemaType.Fields, fieldName)
                  IN  IF ContainsSpace(fieldName) \/ field = NilData
                      THEN [panic |-> TRUE, Entities |-> entities]
                      ELSE setEntitiesLoop(types, Tail(order),
                               Append(entities,
                                      Entity(schemaType.Name, fieldName, "", field.Type,
                                             ResolverName(schemaType.Name, fieldName))))
             ELSE setEntitiesLoop(types, Tail(order), entities)

\* f.setEntities(cfg): loadFails says that cfg.LoadSchema returned an error
setEntities(entities, c, loadFails, order) ==
    IF loadFails THEN [panic |-> TRUE, Entities |-> entities]
    ELSE setEntitiesLoop(LoadSchema(c).Types, order, entities)

\* the reserved model names MutateConfig declares
Builtins == {"_Service", "_Any", "Entity"}

RECURSIVE MutateConfigLoop(_, _)
\* the range loop of MutateConfig over builtins, visited in that order
MutateConfigLoop(models, order) ==
    IF order = <<>> THEN [err |-> "", Models |-> models]
    ELSE IF Head(order) \in models
         THEN [err |-> "AlreadyExistsError", Models |-> models]
         ELSE MutateConfigLoop(models \cup {Head(order)}, Tail(order))

\* the union, the query fields and the service type MutateSchema declares
EntityUnion(types) == Definition("UNION", "_Entity", <<>>, <<>>, types)

EntitiesField ==
    FieldDef("_entities", NonNullListType(NamedType("_Entity")),
             <<Arg("representations", NonNullListType(NonNullNamedType("_Any")))>>)

ServiceType ==
    Definition("OBJECT", "_Service", <<FieldDef("sdl", NonNullNamedType("String"), <<>>)>>,
               <<>>, <<>>)

ServiceField == FieldDef("_service", NonNullNamedType("_Service"), <<>>)

\* s.Types[name] = def
SetType(types, def) ==
    [n \in DOMAIN types \cup {def.Name} |-> IF n = def.Name THEN def ELSE types[n]]

\* ast.Schema.AddPossibleType
AddPossibleType(possible, name, def) ==
    [n \in DOMAIN possible \cup {name} |->
        IF n = name
        THEN (IF name \in DOMAIN possible THEN possible[name] ELSE <<>>) \o <<def>>
        ELSE possible[n]]

\* s.Query.Fields = append(s.Query.Fields, fieldDef); s.Query points into
\* s.Types
AppendQueryField(types, query, fieldDef) ==
    [types EXCEPT ![query].Fields = Append(@, fieldDef)]

RECURSIVE AddPossibleTypes(_, _)
AddPossibleTypes(possible, entities) ==
    IF entities = <<>> THEN possible
    ELSE AddPossibleTypes(AddPossibleType(possible, "_Entity", Head(entities).Name),
                          Tail(entities))

\* federation.MutateSchema on a schema that has a Query root
MutateSchema(s, entities) ==
    LET t1 == SetType(s.Types, EntityUnion(Names(entities)))
        t2 == AppendQueryField(t1, s.Query, EntitiesField)
        t3 == SetType(t2, ServiceType)
        t4 == AppendQueryField(t3, s.Query, ServiceField)
    IN  [s EXCEPT !.Types = t4,
                  !.PossibleTypes = AddPossibleTypes(s.PossibleTypes, entities)]

\* ---------------------------------------------------------- the IR builder
\* codegen.Field
Field(name, go) == [Name |-> name, TypeReference |-> go]

\* codegen.Object
Object(name, fields) == [Name |-> name, Fields |-> fields, Implements |-> <<>>, Root |-> FALSE]

\* codegen.Entity
DataEntity(name, fieldName, fieldType) ==
    [Name |-> name, FieldName |-> fieldName, FieldType |-> fieldType]

\* whether the Type Binder resolves every type a field definition names
Resolves(c, fieldDef) ==
    /\ fieldDef.Type.NamedType \notin c.Unbound
    /\ \A i \in DOMAIN fieldDef.Arguments : fieldDef.Arguments[i].Type.NamedType \notin c.Unbound

\* builder.buildField: the field, or NilData with a TypeBuildError
buildField(c, fieldDef) ==
    IF Resolves(c, fieldDef)
    THEN Field(fieldDef.Name, GoType(fieldDef.Type.NamedType))
    ELSE NilData

\* builder.buildObject: the object, or NilData when a field fails to build
buildObject(c, def) ==
    IF \A i \in DOMAIN def.Fields : Resolves(c, def.Fields[i])
    THEN Object(def.Name, [i \in DOMAIN def.Fields |-> buildField(c, def.Fields[i])])
    ELSE NilData

\* builder.buildInterface: the possible types the schema records
buildInterface(s, def) ==
    [Name |-> def.Name,
     Implementors |-> IF def.Name \in DOMAIN s.PossibleTypes
                      THEN s.PossibleTypes[def.Name] ELSE def.Types]

\* Objects.ByName: the index of the first object of that name, or 0
ByName(objects, name) ==
    IF \E i \in DOMAIN objects : objects[i].Name = name
    THEN CHOOSE i \in DOMAIN objects :
            /\ objects[i].Name = name
            /\ \A j \in 1..(i - 1) : objects[j].Name # name
    ELSE 0

\* the Data value before the loop over the schema's types
EmptyData ==
    [Objects |-> <<>>, Inputs |-> <<>>, Interfaces |-> <<>>, Entities |-> <<>>,
     QueryRoot |-> Nil, SDL |-> <<>>, SchemaStr |-> <<>>]

\* s.Interfaces[name] = iface, the map kept as a sequence sorted by name
RECURSIVE PutInterface(_, _)
PutInterface(ifaces, iface) ==
    IF ifaces = <<>> THEN <<iface>>
    ELSE IF Head(ifaces).Name = iface.Name THEN <<iface>> \o Tail(ifaces)
    ELSE IF NameLess(iface.Name, Head(ifaces).Name) THEN <<iface>> \o ifaces
    ELSE <<Head(ifaces)>> \o PutInterface(Tail(ifaces), iface)

RECURSIVE BuildLoop(_, _, _, _)
\* the range loop of BuildData over b.Schema.Types, visited in that order
BuildLoop(c, sch, order, s) ==
    IF order = <<>> THEN [err |-> "", s |-> s]
    ELSE
      LET schemaType == sch.Types[Head(order)]
      IN  CASE schemaType.Kind = "OBJECT" ->
                 LET obj == buildObject(c, schemaType)
                     dir == ForName(schemaType.Directives, "key")
                 IN  IF obj = NilData
                     THEN [err |-> "unable to build object definition", s |-> s]
                     ELSE IF dir = NilData
                     THEN BuildLoop(c, sch, Tail(order),
                                    [s EXCEPT !.Objects = Append(@, obj)])
                     ELSE IF obj.Fields = <<>>
                     THEN [err |-> "panic", s |-> s]
                     ELSE BuildLoop(c, sch, Tail(order),
                            [s EXCEPT !.Objects = Append(@, obj),
                                      !.Entities = Append(@,
                                          DataEntity(obj.Name, dir.Raw,
                                                     obj.Fields[1].TypeReference))])
            [] schemaType.Kind = "INPUT_OBJECT" ->
                 LET input == buildObject(c, schemaType)
                 IN  IF input = NilData
                     THEN [err |-> "unable to build input definition", s |-> s]
                     ELSE BuildLoop(c, sch, Tail(order),
                                    [s EXCEPT !.Inputs = Append(@, input)])
            [] schemaType.Kind \in {"UNION", "INTERFACE"} ->
                 BuildLoop(c, sch, Tail(order),
                     [s EXCEPT !.Interfaces = PutInterface(@, buildInterface(sch, schemaType))])
            [] OTHER -> BuildLoop(c, sch, Tail(order), s)

\* the fields builder.injectIntrospectionRoots declares
TypeField == FieldDef("__type", NamedType("__Type"), <<Arg("name", NonNullNamedType("String"))>>)
SchemaField == FieldDef("__schema", NamedType("__Schema"), <<>>)

\* the _Entity union builder.injectEntityUnion declares
BuilderEntityUnion(possibleTypes) == Definition("UNION", "_Entity", <<>>, <<>>, possibleTypes)

\* obj.Fields = append(obj.Fields, fields...) on the object at index i
AppendFields(objects, i, fields) == [objects EXCEPT ![i].Fields = @ \o fields]

\* injectIntrospectionRoots returning nil where no object is the Query root
injectIntrospectionRoots_NoError(c, sch, s) ==
    LET i == ByName(s.Objects, sch.Query)
        type == buildField(c, TypeField)
        schm == buildField(c, SchemaField)
    IN  IF i = 0 THEN [err |-> "", s |-> s, sch |-> sch]
        ELSE IF type = NilData \/ schm = NilData
        THEN [err |-> "TypeBuildError", s |-> s, sch |-> sch]
        ELSE [err |-> "", sch |-> sch,
              s |-> [s EXCEPT !.Objects = AppendFields(@, i, <<type, schm>>)]]

\* builder.injectIntrospectionRoots
injectIntrospectionRoots(c, sch, s) ==
    LET i == ByName(s.Objects, sch.Query)
        type == buildField(c, TypeField)
        schm == buildField(c, SchemaField)
    IN  IF i = 0 THEN [err |-> "root query type must be defined", s |-> s, sch |-> sch]
        ELSE IF type = NilData \/ schm = NilData
        THEN [err |-> "TypeBuildError", s |-> s, sch |-> sch]
        ELSE [err |-> "", sch |-> sch,
              s |-> [s EXCEPT !.Objects = AppendFields(@, i, <<type, schm>>)]]

\* injectEntityUnion adding to the possible types the schema already records
injectEntityUnion_Appends(c, sch, s) ==
    LET possibleTypes == Names(s.Entities)
        union == BuilderEntityUnion(possibleTypes)
        sch1 == [sch EXCEPT !.PossibleTypes = AddPossibleTypes(@, s.Entities)]
        implements(o) ==
            [k \in 1..Cardinality({e \in DOMAIN s.Entities : s.Entities[e].Name = o.Name})
                |-> "_Entity"]
    IN  [err |-> "",
         sch |-> [sch1 EXCEPT !.Types = SetType(@, union)],
         s |-> [s EXCEPT !.Interfaces = PutInterface(@, buildInterface(sch1, union)),
                         !.Objects = [k \in DOMAIN @ |->
                              [@[k] EXCEPT !.Implements = @ \o implements(s.Objects[k])]]]]

\* builder.injectEntityUnion
injectEntityUnion(c, sch, s) ==
    LET possibleTypes == Names(s.Entities)
        union == BuilderEntityUnion(possibleTypes)
        possible == [n \in DOMAIN sch.PossibleTypes \cup {"_Entity"} |->
                        IF n = "_Entity" THEN possibleTypes ELSE sch.PossibleTypes[n]]
        sch1 == [sch EXCEPT !.PossibleTypes = possible]
        obj == buildInterface(sch1, union)
        \* one append per entity of that name
        implements(o) ==
            [k \in 1..Cardinality({e \in DOMAIN s.Entities : s.Entities[e].Name = o.Name})
                |-> "_Entity"]
    IN  [err |-> "",
         sch |-> [sch1 EXCEPT !.Types = SetType(@, union)],
         s |-> [s EXCEPT !.Interfaces = PutInterface(@, obj),
                         !.Objects = [k \in DOMAIN @ |->
                              [@[k] EXCEPT !.Implements = @ \o implements(s.Objects[k])]]]]

\* injectEntitiesQuery adding the field to the Object alone
injectEntitiesQuery_ObjectOnly(c, sch, s) ==
    LET entities == buildField(c, EntitiesField)
    IN  IF entities = NilData THEN [err |-> "TypeBuildError", s |-> s, sch |-> sch]
        ELSE IF s.QueryRoot = Nil THEN [err |-> "panic", s |-> s, sch |-> sch]
        ELSE [err |-> "", sch |-> sch,
              s |-> [s EXCEPT !.Objects = AppendFields(@, ByName(s.Objects, s.QueryRoot),
                                                       <<entities>>)]]

\* builder.injectEntitiesQuery; s.QueryRoot.Fields panics on a nil QueryRoot
injectEntitiesQuery(c, sch, s) ==
    LET entities == buildField(c, EntitiesField)
    IN  IF entities = NilData THEN [err |-> "TypeBuildError", s |-> s, sch |-> sch]
        ELSE IF s.QueryRoot = Nil THEN [err |-> "panic", s |-> s, sch |-> sch]
        ELSE [err |-> "",
              s |-> [s EXCEPT !.Objects = AppendFields(@, ByName(s.Objects, s.QueryRoot),
                                                       <<entities>>)],
              sch |-> [sch EXCEPT !.Types = AppendQueryField(@, sch.Query, EntitiesField)]]

\* builder.injectSDL; s.QueryRoot.Fields panics on a nil QueryRoot
injectSDL(c, sch, s) ==
    LET obj == buildObject(c, ServiceType)
        s1 == [s EXCEPT !.Objects = Append(@, obj)]
        sch1 == [sch EXCEPT !.Types = SetType(@, ServiceType)]
        service == buildField(c, ServiceField)
    IN  IF obj = NilData THEN [err |-> "TypeBuildError", s |-> s, sch |-> sch]
        ELSE IF service = NilData THEN [err |-> "TypeBuildError", s |-> s1, sch |-> sch1]
        ELSE IF s.QueryRoot = Nil THEN [err |-> "panic", s |-> s1, sch |-> sch1]
        ELSE [err |-> "",
              s |-> [s1 EXCEPT !.Objects = AppendFields(@, ByName(s1.Objects, s1.QueryRoot),
                                                        <<service>>)],
              sch |-> [sch1 EXCEPT !.Types = AppendQueryField(@, sch.Query, ServiceField)]]

RECURSIVE Insert(_, _)
\* insert an object into a list sorted by Definition.Name
Insert(x, sorted) ==
    IF sorted = <<>> THEN <<x>>
    ELSE IF NameLess(x.Name, Head(sorted).Name) THEN <<x>> \o sorted
    ELSE <<Head(sorted)>> \o Insert(x, Tail(sorted))

\* a sort that leaves the list as it is
SortByName_Unsorted(objects) == objects

RECURSIVE SortByName(_)
\* sort.Slice with the comparison of the Definition names
SortByName(objects) ==
    IF objects = <<>> THEN <<>>
    ELSE Insert(Head(objects), SortByName(Tail(objects)))

\* ------------------------------------------------------ the printed schema
\* a printed field: name(arguments): type
FormatField(fieldDef) == <<fieldDef.Name, fieldDef.Arguments, fieldDef.Type>>

\* the lines of one printed definition
FormatDefinition(def) ==
    <<<<def.Kind, def.Name>>>> \o
    [i \in DOMAIN def.Fields |-> FormatField(def.Fields[i])] \o
    [i \in DOMAIN def.Types |-> <<"|", def.Types[i]>>]

RECURSIVE FormatAll(_, _)
FormatAll(types, names) ==
    IF names = <<>> THEN <<>>
    ELSE FormatDefinition(types[Head(names)]) \o FormatAll(types, Tail(names))

\* the names of a set in ascending order
SortedNames(S) == SelectSeq(NameOrder, LAMBDA n : n \in S)

\* gqlfmt.PrintSchema: every definition in name order, its fields in list order
PrintSchema(sch) == FormatAll(sch.Types, SortedNames(DOMAIN sch.Types))

\* the text BuildData removes from the printed schema
EntitiesSignature == FormatField(EntitiesField)

RECURSIVE Replace(_, _, _, _)
\* strings.Replace(str, old, new, n) on a text of lines, old being one line
Replace(str, old, new, n) ==
    IF str = <<>> \/ n = 0 THEN str
    ELSE IF Head(str) = old THEN <<new>> \o Replace(Tail(str), old, new, n - 1)
    ELSE <<Head(str)>> \o Replace(Tail(str), old, new, n)

\* the number of replacements BuildData asks for
ReplaceCount == 1

EmptyLine == <<>>

\* ------------------------------------------------------------- BuildData
\* the calls of BuildData into other packages that may return an error
ExternalFailures == {"none", "LoadSchema", "buildTypes", "PrintSchema"}

\* the orders in which the loop of BuildData may build the objects and
\* inputs; a union or interface only sets its own key of s.Interfaces and
\* cannot fail, so it is visited last, in name order
VisitOrders(types) ==
    LET built == {n \in DOMAIN types : types[n].Kind \in {"OBJECT", "INPUT_OBJECT"}}
    IN  {o \o SortedNames(DOMAIN types \ built) : o \in Orders(built)}

\* the field names of the Query root Object (none while QueryRoot is nil)
\* and of the schema's Query
Snapshot(stage, sch, s) ==
    [stage |-> stage,
     object |-> IF s.QueryRoot = Nil THEN <<>>
                ELSE Names(s.Objects[ByName(s.Objects, s.QueryRoot)].Fields),
     schema |-> Names(sch.Types[sch.Query].Fields)]

Return(e, d, sch, errs, snaps) ==
    [err |-> e, data |-> d, sch |-> sch, stageErrs |-> errs, qsync |-> snaps]

\* what BuildData holds after a stage returned r: the Data and the schema
\* as the stage left them; errs and snaps record the errors the stages
\* returned and the Query root fields after each stage that adds fields
After(st, stage, r) ==
    [s |-> r.s, sch |-> r.sch,
     errs |-> IF r.err = "" THEN st.errs ELSE st.errs \cup {stage},
     panic |-> st.panic \/ r.err = "panic",
     snaps |-> IF stage = "injectEntityUnion" THEN st.snaps
               ELSE Append(st.snaps, Snapshot(stage, r.sch, r.s))]

\* b.injectEntityUnion(&s): the error is dropped
ThenEntityUnion(c, st) == After(st, "injectEntityUnion", injectEntityUnion(c, st.sch, st.s))

\* b.injectEntitiesQuery(&s): the error is dropped
ThenEntitiesQuery(c, st) ==
    After(st, "injectEntitiesQuery", injectEntitiesQuery(c, st.sch, st.s))

\* b.injectSDL(&s): the error is dropped
ThenSDL(c, st) == After(st, "injectSDL", injectSDL(c, st.sch, st.s))

\* if cfg.Federated { ... }
Federate(c, st) ==
    IF c.Federated THEN ThenSDL(c, ThenEntitiesQuery(c, ThenEntityUnion(c, st)))
    ELSE st

\* the sorts of Objects and Inputs
Sorted(s) == [s EXCEPT !.Objects = SortByName(@), !.Inputs = SortByName(@)]

\* s.SDL and s.SchemaStr from the printed schema
Printed(s, str) ==
    [s EXCEPT !.SDL = Replace(str, EntitiesSignature, EmptyLine, ReplaceCount),
              !.SchemaStr = str]

\* BuildData from buildTypes to its return
Finish(fails, st) ==
    IF st.panic THEN Return("panic", NilData, st.sch, st.errs, st.snaps)
    ELSE IF fails = "buildTypes"
    THEN Return("TypeBuildError", NilData, st.sch, st.errs \cup {"buildTypes"}, st.snaps)
    ELSE IF fails = "PrintSchema"
    THEN Return("PrintSchemaError", NilData, st.sch, st.errs \cup {"PrintSchema"}, st.snaps)
    ELSE Return("", Printed(Sorted(st.s), PrintSchema(st.sch)), st.sch, st.errs, st.snaps)

\* BuildData from the return of injectIntrospectionRoots on
AfterRoots(c, fails, r) ==
    IF r.err # "" THEN Return(r.err, NilData, r.sch, {"injectIntrospectionRoots"}, <<>>)
    ELSE Finish(fails,
                Federate(c, After([errs |-> {}, panic |-> FALSE, snaps |-> <<>>],
                                  "injectIntrospectionRoots", r)))

\* s.QueryRoot = s.Objects.ByName(s.Schema.Query.Name)
SetQueryRoot(s, sch) ==
    [s EXCEPT !.QueryRoot = IF ByName(s.Objects, sch.Query) = 0 THEN Nil ELSE sch.Query]

\* BuildData from the end of the loop over the schema's types on
AfterLoop(c, sch, fails, loop) ==
    IF loop.err # "" THEN Return(loop.err, NilData, sch, {"buildObject"}, <<>>)
    ELSE IF sch.Query = Nil
    THEN Return("query entry point missing", NilData, sch, {"QueryRoot"}, <<>>)
    ELSE AfterRoots(c, fails, injectIntrospectionRoots(c, sch, SetQueryRoot(loop.s, sch)))

\* codegen.BuildData; order is the order of the loop over b.Schema.Types,
\* fails the external call that returns an error
BuildData(c, sch, order, fails) ==
    IF fails = "LoadSchema" THEN Return("SchemaLoadError", NilData, sch, {"LoadSchema"}, <<>>)
    ELSE AfterLoop(c, sch, fails, BuildLoop(c, sch, order, EmptyData))

\* ----------------------------------------------------------- GenerateCode
\* what reading and loading the schema files in getSDL may do
SDLFailures == {"none", "ReadFile", "LoadSchema"}

\* federation.getSDL: the printed schema of the user's sources, an error, or
\* the end of the process
getSDL(c, fails) ==
    IF fails = "ReadFile" THEN [exit |-> TRUE, err |-> "", sdl |-> <<>>]
    ELSE IF fails = "LoadSchema" THEN [exit |-> FALSE, err |-> "SchemaLoadError", sdl |-> <<>>]
    ELSE [exit |-> FALSE, err |-> "",
          sdl |-> PrintSchema(LoadSchema([c EXCEPT !.AdditionalSources = <<>>]))]

\* the Go type of the last field of obj whose name is the entity's key text
BoundType(obj, e) ==
    LET hits == {i \in DOMAIN obj.Fields : Text(obj.Fields[i].Name) = e.FieldName}
    IN  IF hits = {} THEN e.FieldTypeGo
        ELSE obj.Fields[CHOOSE i \in hits : \A j \in hits : j <= i].TypeReference

\* the loop of GenerateCode that binds every entity's FieldTypeGo
BindEntities(objects, entities) ==
    [i \in DOMAIN entities |->
        [entities[i] EXCEPT !.FieldTypeGo =
            BoundType(objects[ByName(objects, entities[i].Name)], entities[i])]]

\* --------------------------------------------------- the generated dispatch
\* a value of Go's interface{}: its dynamic type and its value
Value(t, v) == [T |-> t, V |-> v]

\* representations: maps from string keys to values
Rep(typename, key, val) ==
    [k \in {x \in {"__typename", key} : x # ""} |-> IF k = "__typename" THEN typename ELSE val]

Representations ==
    {Rep(Value("string", "Product"), "upc", Value("string", "123")),
     Rep(Value("string", "Product"), "upc", Value("string", "bad")),
     Rep(Value("string", "Product"), "upc", Value("int", "123")),
     Rep(Value("string", "Product"), "", Value("", "")),
     Rep(Value("string", "User"), "id", Value("string", "u1")),
     Rep(Value("string", "Widget"), "upc", Value("string", "123")),
     Rep(Value("int", "7"), "upc", Value("string", "123")),
     [k \in {"upc"} |-> Value("string", "123")]}

\* a type assertion that only looks for the key
TypeAssert_AnyType(rep, key, type) ==
    IF \E k \in DOMAIN rep : Text(k) = key
    THEN [ok |-> TRUE, v |-> rep[CHOOSE k \in DOMAIN rep : Text(k) = key].V]
    ELSE [ok |-> FALSE, v |-> ""]

\* rep[key].(type): ok is whether the key is present with that dynamic type
TypeAssert(rep, key, type) ==
    IF \E k \in DOMAIN rep : Text(k) = key /\ rep[k].T = type
    THEN [ok |-> TRUE, v |-> rep[CHOOSE k \in DOMAIN rep : Text(k) = key].V]
    ELSE [ok |-> FALSE, v |-> ""]

\* the user's entity resolver: it fails for the id "bad"
Resolver(resolverName, id) ==
    IF id = "bad" THEN [resp |-> NoResult, err |-> "not found"]
    ELSE [resp |-> [resolver |-> resolverName, id |-> id], err |-> ""]

\* return nil, err
Fail(e) == [list |-> <<>>, isNil |-> TRUE, err |-> e]

\* the index of the first case of the switch that matches, or 0
Case(entities, typeName) ==
    IF \E i \in DOMAIN entities : entities[i].Name = typeName
    THEN CHOOSE i \in DOMAIN entities :
            /\ entities[i].Name = typeName
            /\ \A j \in 1..(i - 1) : entities[j].Name # typeName
    ELSE 0

RECURSIVE ResolveLoop(_, _, _)
\* the loop of the generated __resolve_entities
ResolveLoop(entities, representations, list) ==
    IF representations = <<>> THEN [list |-> list, isNil |-> FALSE, err |-> ""]
    ELSE
      LET rep == Head(representations)
          typeName == TypeAssert(rep, Text("__typename"), "string")
          c == Case(entities, typeName.v)
          id == TypeAssert(rep, entities[c].FieldName, entities[c].FieldTypeGo)
          r == Resolver(entities[c].ResolverName, id.v)
      IN  IF ~typeName.ok THEN Fail("__typename must be an existing string")
          ELSE IF c = 0 THEN Fail("unknown type")
          ELSE IF ~id.ok THEN Fail("opsies")
          ELSE IF r.err # "" THEN Fail(r.err)
          ELSE ResolveLoop(entities, Tail(representations), Append(list, r.resp))

\* the generated __resolve_entities
ResolveEntities(entities, representations) == ResolveLoop(entities, representations, <<>>)

\* ------------------------------------------------------ the pipeline driver
NewPlugin == [SDL |-> <<>>, Entities |-> <<>>]

NoReps == <<>>

\* the state of a process that starts a run on that config
Start(c, withPlugin, n, last) ==
    /\ cfg = c
    /\ plugins = withPlugin
    /\ schema = NilSchema
    /\ f = NewPlugin
    /\ data = NilData
    /\ err = ""
    /\ pc = IF withPlugin THEN "MutateConfig" ELSE "ParseSchema"
    /\ stageErrs = {}
    /\ qsync = <<>>
    /\ run = n
    /\ prev = last
    /\ ran = {}
    /\ fault = ""
    /\ reps = NoReps
    /\ out = NoResult

Init == \E c \in Configs, withPlugin \in BOOLEAN : Start(c, withPlugin, 1, NilData)

\* the driver stops at the first error; a panic or os.Exit ends the process
Abort(e) ==
    /\ err' = e
    /\ pc' = "done"

\* federation.MutateConfig
MutateConfig ==
    /\ pc = "MutateConfig"
    /\ \E order \in Orders(Builtins) :
          LET r == MutateConfigLoop(cfg.Models, order)
          IN  /\ cfg' = [cfg EXCEPT !.Models = r.Models]
              /\ IF r.err # "" THEN Abort(r.err)
                 ELSE pc' = "InjectSources" /\ err' = err
    /\ ran' = ran \cup {"MutateConfig"}
    /\ UNCHANGED <<plugins, schema, f, data, stageErrs, qsync, run, prev, fault, reps, out>>

\* federation.InjectSources
InjectSources ==
    /\ pc = "InjectSources"
    /\ LET c1 == [cfg EXCEPT !.AdditionalSources = Append(@, FederationSource)]
       IN  \E loadFails \in BOOLEAN, order \in Orders(DOMAIN LoadSchema(c1).Types) :
              LET r == setEntities(f.Entities, c1, loadFails, order)
              IN  /\ f' = [f EXCEPT !.Entities = r.Entities]
                  /\ fault' = IF loadFails THEN "setEntities.LoadSchema" ELSE fault
                  /\ IF r.panic
                     THEN cfg' = c1 /\ Abort("panic")
                     ELSE /\ cfg' = [c1 EXCEPT !.AdditionalSources =
                                         Append(@, EntitySource(r.Entities))]
                          /\ pc' = "ParseSchema"
                          /\ err' = err
    /\ ran' = ran \cup {"InjectSources"}
    /\ UNCHANGED <<plugins, schema, data, stageErrs, qsync, run, prev, reps, out>>

\* the driver parses the merged sources
ParseSchema ==
    /\ pc = "ParseSchema"
    /\ \E loadFails \in BOOLEAN :
          IF loadFails
          THEN Abort("SchemaLoadError") /\ schema' = schema
          ELSE /\ schema' = LoadSchema(cfg)
               /\ pc' = IF plugins THEN "MutateSchema" ELSE "BuildData"
               /\ err' = err
    /\ ran' = ran \cup {"ParseSchema"}
    /\ UNCHANGED <<cfg, plugins, f, data, stageErrs, qsync, run, prev, fault, reps, out>>

\* the driver calls federation.MutateSchema; s.Query.Fields panics when the
\* schema has no Query root
MutateSchemaHook ==
    /\ pc = "MutateSchema"
    /\ IF schema.Query = Nil
       THEN /\ schema' = [schema EXCEPT !.Types = SetType(@, EntityUnion(Names(f.Entities))),
                                        !.PossibleTypes = AddPossibleTypes(@, f.Entities)]
            /\ Abort("panic")
       ELSE /\ schema' = MutateSchema(schema, f.Entities)
            /\ pc' = "BuildData"
            /\ err' = err
    /\ ran' = ran \cup {"MutateSchema"}
    /\ UNCHANGED <<cfg, plugins, f, data, stageErrs, qsync, run, prev, fault, reps, out>>

\* the driver takes what BuildData returned
Returned(r) ==
    /\ data' = r.data
    /\ schema' = r.sch
    /\ stageErrs' = r.stageErrs
    /\ qsync' = r.qsync
    /\ IF r.err # "" THEN Abort(r.err)
       ELSE pc' = (IF plugins THEN "GenerateCode" ELSE "done") /\ err' = err

\* the driver calls codegen.BuildData
BuildDataStep ==
    /\ pc = "BuildData"
    /\ \E fails \in ExternalFailures :
       \E order \in (IF fails = "LoadSchema" THEN {<<>>} ELSE VisitOrders(schema.Types)) :
          Returned(BuildData(cfg, schema, order, fails))
    /\ ran' = ran \cup {"BuildData"}
    /\ UNCHANGED <<cfg, plugins, f, run, prev, fault, reps, out>>

\* what templates.Render may return
RenderResults == {"", "RenderError"}

\* federation.GenerateCode
GenerateCode ==
    /\ pc = "GenerateCode"
    /\ \E fails \in SDLFailures, rendered \in RenderResults :
          LET sdl == getSDL(cfg, fails)
              entity == ByName(data.Objects, "Entity")
              missing == \E i \in DOMAIN f.Entities : ByName(data.Objects, f.Entities[i].Name) = 0
          IN  /\ fault' = IF fails = "none" THEN fault ELSE IF fails = "ReadFile" THEN "getSDL.ReadFile"
                          ELSE "getSDL.LoadSchema"
              /\ IF sdl.exit THEN Abort("exit") /\ UNCHANGED <<f, data>>
                 ELSE IF sdl.err # "" THEN Abort(sdl.err) /\ UNCHANGED <<f, data>>
                 ELSE IF entity = 0
                 THEN Abort("panic") /\ f' = [f EXCEPT !.SDL = sdl.sdl] /\ data' = data
                 ELSE /\ data' = [data EXCEPT !.Objects[entity].Root = TRUE]
                      /\ IF missing THEN Abort("panic") /\ f' = [f EXCEPT !.SDL = sdl.sdl]
                         ELSE /\ f' = [SDL |-> sdl.sdl,
                                       Entities |-> BindEntities(data.Objects, f.Entities)]
                              /\ err' = rendered
                              /\ pc' = "done"
    /\ ran' = ran \cup {"GenerateCode"}
    /\ UNCHANGED <<cfg, plugins, schema, stageErrs, qsync, run, prev, reps, out>>

\* the sequences of at most n representations
RepSeqs(n) == UNION {[1..k -> Representations] : k \in 0..n}

\* a gateway calls the generated __resolve_entities
Dispatch ==
    /\ pc = "done"
    /\ err = ""
    /\ plugins
    /\ \E r \in RepSeqs(MaxReps) :
          /\ reps' = r
          /\ out' = ResolveEntities(f.Entities, r)
    /\ pc' = "dispatched"
    /\ ran' = ran \cup {"Dispatch"}
    /\ UNCHANGED <<cfg, plugins, schema, f, data, err, stageErrs, qsync, run, prev, fault>>

\* the user runs the pipeline again on the same config and schema files
Rerun ==
    /\ pc = "done"
    /\ run < MaxRuns
    /\ cfg' = [cfg EXCEPT !.Models = cfg.UserModels, !.AdditionalSources = <<>>]
    /\ schema' = NilSchema
    /\ f' = NewPlugin
    /\ data' = NilData
    /\ err' = ""
    /\ pc' = IF plugins THEN "MutateConfig" ELSE "ParseSchema"
    /\ stageErrs' = {}
    /\ qsync' = <<>>
    /\ run' = run + 1
    /\ prev' = data
    /\ ran' = {}
    /\ fault' = ""
    /\ reps' = NoReps
    /\ out' = NoResult
    /\ UNCHANGED plugins

Next ==
    \/ MutateConfig
    \/ InjectSources
    \/ ParseSchema
    \/ MutateSchemaHook
    \/ BuildDataStep
    \/ GenerateCode
    \/ Dispatch
    \/ Rerun

Spec == Init /\ [][Next]_vars

\* ------------------------------------------------------------------ claims
Finished == pc \in {"done", "dispatched"}

\* the object types of the user's schema that carry a @key directive
Keyed(c) ==
    {d \in c.Sources.Defs : d.Kind = "OBJECT" /\ ForName(d.Directives, "key") # NilData}

SingleKeyed(c) == {d \in Keyed(c) : Len(ForName(d.Directives, "key").Raw) = 1}

HasMultiKey(c) == Keyed(c) # SingleKeyed(c)

\* a list holds exactly the names of a set, each once
ExactlyOnce(list, S) == Range(list) = S /\ Len(list) = Cardinality(S)

\* C1: when every @key of the schema names a single field and federation is
\* enabled (by the config flag or by the plugin), a pipeline that ends without
\* error leaves one Entity per keyed object type, no type twice, in the
\* builder's and in the plugin's list, and the members of the _Entity union
\* and the possible types the schema records for _Entity are exactly the
\* entity type names.
C1_EntityUnionExact ==
    (/\ Finished /\ err = "" /\ data # NilData
     /\ cfg.Federated \/ plugins
     /\ ~HasMultiKey(cfg))
    => LET names == {d.Name : d \in SingleKeyed(cfg)}
       IN  /\ ExactlyOnce(Names(data.Entities), names)
           /\ plugins => ExactlyOnce(Names(f.Entities), names)
           /\ "_Entity" \in DOMAIN schema.Types
           /\ ExactlyOnce(schema.Types["_Entity"].Types, names)
           /\ "_Entity" \in DOMAIN schema.PossibleTypes \/ names = {}
           /\ "_Entity" \in DOMAIN schema.PossibleTypes
                 => ExactlyOnce(schema.PossibleTypes["_Entity"], names)

C1_Witness ==
    /\ Finished /\ err = "" /\ data # NilData
    /\ cfg.Federated /\ plugins
    /\ Len(data.Entities) = 2
    /\ Len(schema.PossibleTypes["_Entity"]) = 2

\* the schema has no Query root, or names one that is no object type
NoQueryObject(c) ==
    \/ c.Sources.Query = Nil
    \/ \E d \in c.Sources.Defs : d.Name = c.Sources.Query /\ d.Kind # "OBJECT"

\* C2: BuildData on a schema without a Query root object returns an error
\* and no Data; unless loading the schema or building a type failed first,
\* the error is the missing-query-root error.
C2_MissingQueryRoot ==
    ("BuildData" \in ran /\ NoQueryObject(cfg))
    => /\ data = NilData
       /\ err # ""
       /\ stageErrs \cap {"LoadSchema", "buildObject"} = {}
            => err \in {"query entry point missing", "root query type must be defined"}

C2_Witness ==
    /\ "BuildData" \in ran
    /\ "MutateSchema" \in ran
    /\ NoQueryObject(cfg)
    /\ err = "root query type must be defined"

\* the stage that reads the @key directives has run to its end
KeysExamined ==
    \/ "InjectSources" \in ran /\ fault = ""
    \/ "BuildData" \in ran /\ "LoadSchema" \notin stageErrs

\* C3: a @key that names more than one field makes the build fail with a
\* returned UnsupportedKeyError: the process does not panic and no Entity
\* holds the unsplit key.
C3_UnsupportedKeyReturned ==
    (HasMultiKey(cfg) /\ KeysExamined)
    => /\ err = "UnsupportedKeyError"
       /\ \A i \in DOMAIN f.Entities : Len(f.Entities[i].FieldName) = 1
       /\ data # NilData => \A i \in DOMAIN data.Entities : Len(data.Entities[i].FieldName) = 1

\* C4: when a stage of BuildData returned an error, BuildData returns an
\* error and no Data.
C4_StageFailureAborts ==
    ("BuildData" \in ran /\ stageErrs # {}) => (data = NilData /\ err # "")

\* C5: a failure to read or load a schema source inside the plugin reaches
\* the driver as a returned error; the process neither exits nor panics.
C5_SourceFailureReturned ==
    fault # "" => (err # "" /\ err \notin {"panic", "exit"})

\* what two runs must agree on: the entities, the unions, the fields of
\* every object and input, and the printed schema
IR(d) ==
    [Entities |-> d.Entities,
     Interfaces |-> d.Interfaces,
     Objects |-> [i \in DOMAIN d.Objects |-> [Name |-> d.Objects[i].Name,
                                               Fields |-> d.Objects[i].Fields]],
     Inputs |-> [i \in DOMAIN d.Inputs |-> [Name |-> d.Inputs[i].Name,
                                             Fields |-> d.Inputs[i].Fields]],
     SDL |-> d.SDL,
     SchemaStr |-> d.SchemaStr]

\* C6: two runs of the pipeline on the same schema and config that both
\* return a Data return the same IR.
C6_RunsAgree ==
    (run > 1 /\ prev # NilData /\ data # NilData) => IR(data) = IR(prev)

\* C7 as stated: after every injection the Query root Object and the
\* schema's Query definition list the same field names.
C7_FieldListsEqual ==
    \A i \in DOMAIN qsync : qsync[i].object = qsync[i].schema

IntrospectionFields == {"__type", "__schema"}

WithoutIntrospection(names) == SelectSeq(names, LAMBDA n : n \notin IntrospectionFields)

\* C7 as amended: after every injection the Query root Object lists the
\* field names of the schema's Query definition, in the same order, and in
\* addition __type and __schema, which only the Object has; so _entities
\* and _service are each in both lists or in neither.
C7_FieldListsEqualButIntrospection ==
    \A i \in DOMAIN qsync :
        /\ WithoutIntrospection(qsync[i].object) = qsync[i].schema
        /\ IntrospectionFields \subseteq Range(qsync[i].object)
        /\ IntrospectionFields \cap Range(qsync[i].schema) = {}

C7_Witness ==
    /\ Len(qsync) = 3
    /\ \E k \in DOMAIN qsync[3].object : qsync[3].object[k] = "_entities"
    /\ \E k \in DOMAIN qsync[3].object : qsync[3].object[k] = "_service"
    /\ stageErrs = {}

\* the entity a representation names, its key value and what the entity's
\* resolver answers for it
Typename(rep) == rep["__typename"].V

EntityNamed(name) == CHOOSE e \in Range(f.Entities) : e.Name = name

KeyOf(rep) == CHOOSE k \in DOMAIN rep : Text(k) = EntityNamed(Typename(rep)).FieldName

\* the representation names an Entity and carries its key with the bound type
WellFormed(rep) ==
    /\ "__typename" \in DOMAIN rep
    /\ rep["__typename"].T = "string"
    /\ \E e \in Range(f.Entities) : e.Name = Typename(rep)
    /\ \E k \in DOMAIN rep :
          /\ Text(k) = EntityNamed(Typename(rep)).FieldName
          /\ rep[k].T = EntityNamed(Typename(rep)).FieldTypeGo

Delegated(rep) == Resolver(EntityNamed(Typename(rep)).ResolverName, rep[KeyOf(rep)].V)

Rejected(rep) == ~WellFormed(rep) \/ Delegated(rep).err # ""

\* C8: the generated dispatch answers a list of well-formed representations
\* with the results of their entities' resolvers in input order; at the
\* first representation that is not well-formed, or whose resolver fails,
\* it returns an error and no list, the resolver's error being unchanged.
C8_Dispatch ==
    pc = "dispatched" =>
        IF \A i \in DOMAIN reps : ~Rejected(reps[i])
        THEN /\ out.err = ""
             /\ ~out.isNil
             /\ out.list = [i \in DOMAIN reps |-> Delegated(reps[i]).resp]
        ELSE LET k == CHOOSE i \in DOMAIN reps :
                         Rejected(reps[i]) /\ \A j \in 1..(i - 1) : ~Rejected(reps[j])
             IN  /\ out.isNil
                 /\ out.list = <<>>
                 /\ out.err # ""
                 /\ WellFormed(reps[k]) => out.err = Delegated(reps[k]).err

C8_Witness ==
    /\ pc = "dispatched"
    /\ Len(reps) = 2
    /\ WellFormed(reps[1]) /\ WellFormed(reps[2])
    /\ Typename(reps[1]) = "User"
    /\ Typename(reps[2]) = "Product"
    /\ Len(out.list) = 2
    /\ out.list[2].resolver = "findProductByUpc"

\* a list of objects is in ascending order of name
Ascending(objects) ==
    \A i, j \in DOMAIN objects : i < j => ~NameLess(objects[j].Name, objects[i].Name)

\* C9: in every Data that BuildData returns, Objects and Inputs are in
\* ascending order of definition name.
C9_Sorted ==
    data # NilData => (Ascending(data.Objects) /\ Ascending(data.Inputs))

C9_Witness ==
    /\ data # NilData
    /\ Len(data.Inputs) = 2
    /\ Len(data.Objects) >= 3
    /\ \E i \in DOMAIN data.Objects : data.Objects[i].Name = "_Service"

\* C10: the SDL of every Data that BuildData returns has no line that is
\* the signature of the _entities field.
C10_NoEntitiesSignature ==
    data # NilData => \A i \in DOMAIN data.SDL : data.SDL[i] # EntitiesSignature

\* the field of the owning type that an entity's key names, NilData if none
KeyField(e) == FieldForName(schema.Types[e.Name].Fields, e.FieldName)

\* an entity's key names an existing field of its owning type and its
\* bound target type is non-empty and is the resolved type of that field
BoundToKeyField(e, bound) ==
    /\ KeyField(e) # NilData
    /\ bound # ""
    /\ bound = GoType(KeyField(e).Type.NamedType)

\* the dispatch template has been rendered
Rendered == plugins /\ "GenerateCode" \in ran /\ Finished /\ err = ""

\* the entities of the plugin, which the template ranges over
PluginEntitiesBound ==
    \A i \in DOMAIN f.Entities : BoundToKeyField(f.Entities[i], f.Entities[i].FieldTypeGo)

\* the entities of the Data that BuildData returned
DataEntitiesBound ==
    \A i \in DOMAIN data.Entities : BoundToKeyField(data.Entities[i], data.Entities[i].FieldType)

\* C11: once the dispatch template is rendered, the key of every Entity
\* names an existing field of the owning type and the Entity's bound target
\* type is non-empty and equals the resolved type of that field; an Entity
\* is bound only after BuildData has run.
C11_EntityBoundToKeyField ==
    /\ Rendered => PluginEntitiesBound /\ DataEntitiesBound
    /\ \A i \in DOMAIN f.Entities : f.Entities[i].FieldTypeGo # "" => "BuildData" \in ran
    /\ data # NilData /\ data.Entities # <<>> => "BuildData" \in ran

====
